---------------------------- MODULE Spec2Model ----------------------------
(***************************************************************************)
(* Model of the multi-session WhatsApp server (src/server.js).             *)
(*                                                                         *)
(* The server keeps one object, `sessions`, keyed by session id.  Each     *)
(* entry is { client, latestQR, isReady }, null (after a disconnect or a   *)
(* logout) or missing (never created, or deleted).  Express routes and     *)
(* socket.io handlers are async functions: each runs to its next `await`   *)
(* without interruption (Node's single thread), so one action of the model *)
(* is one such run.  An `await` of a promise that is already settled (the  *)
(* early return of setupSession) resumes in a microtask, before any        *)
(* provider event, timer or I/O completion, so it does not end an action.  *)
(* Provider (whatsapp-web.js Client) events, promise resolutions and new   *)
(* requests interleave freely between those runs.                          *)
(*                                                                         *)
(* Ghost state (`last`, `removed` and the fields marked ghost) records what *)
(* the program did; the program never reads it.  `last` describes the      *)
(* latest step only: the response it sent, the publishes, provider calls   *)
(* and uncaught errors it made.                                            *)
(***************************************************************************)
EXTENDS Integers, Sequences, FiniteSets, TLC

\* ------------------------------------------------------------------ bounds
MaxReq == 3        \* requests (HTTP or socket) issued in one behaviour
MaxEvents == 2     \* qr and message events emitted in one behaviour
MaxClients == 2    \* Client objects constructed per session id

\* Session ids are arbitrary strings supplied by the tenant.  "7" is a
\* canonical array index, "a" is not: JavaScript enumerates the two kinds of
\* own keys differently (see OwnKeys).
Ids == {"7", "a"}
IndexValue(id) == IF id = "7" THEN 7 ELSE -1
IsArrayIndex(id) == IndexValue(id) >= 0

\* Sender addresses of inbound messages: a chat address and a group address.
Addresses == { <<"n1", "@c.us">>, <<"g1", "@g.us">> }
Number == "n2"     \* req.body.number of send / broadcast
Socket == "s1"     \* the socket.io connection that joins rooms
Body == "hi"       \* req.body.message, and msg.body of inbound messages

\* One slot per route (or socket event) and id, holding the request in flight
\* there, if any.
All == "*"
IdKinds == {"qrPage", "join", "logout", "delete", "send"}
Slots == (IdKinds \X Ids) \cup {<<"broadcast", All>>}
SetupSlots(id) == {<<"qrPage", id>>, <<"join", id>>}

VARIABLES
  sessions,   \* the `sessions` object: id -> entry
  keys,       \* own keys of `sessions` in insertion order
  clients,    \* id -> the Client objects constructed for it, oldest first
  reqs,       \* slot -> the request in flight (or Idle)
  nreq,       \* number of requests issued so far
  rooms,      \* socket.io rooms: id -> the sockets that joined
  qrs,        \* id -> qr events: how many were emitted, which handlers are pending
  msgs,       \* id -> message events: how many were emitted, which handlers are pending
  nev,        \* number of qr and message events emitted so far
  ncalls,     \* number of sendMessage calls made so far
  store,      \* the Message collection (append-only)
  removed,    \* ghost: id -> a remove of id has ended and setupSession has not run since
  last        \* ghost: what the latest step did

vars == <<sessions, keys, clients, reqs, nreq, rooms, qrs, msgs, nev, ncalls, store, removed, last>>

\* ------------------------------------------------------------- registry
NoQR == <<>>
Absent == [tag |-> "absent", client |-> 0, latestQR |-> NoQR, isReady |-> FALSE]
Null == [tag |-> "null", client |-> 0, latestQR |-> NoQR, isReady |-> FALSE]

\* sessions[sessionId]?.client is truthy
HasClient(e) == e.tag = "live"

\* sessions[sessionId]?.isReady || false
IsReadyEntry(e) == e.tag = "live" /\ e.isReady

\* sessions[sessionId]?.latestQR
QrOf(e) == IF e.tag = "live" THEN e.latestQR ELSE NoQR

\* { client, latestQR: null, isReady: false }; c is the client's number
\* among those constructed for the id
NewEntry(c) == [tag |-> "live", client |-> c, latestQR |-> NoQR, isReady |-> FALSE]

\* qrcode.toDataURL(qr): the data URL of the image of qr
toDataURL(q) == <<"data:image/png", q>>

\* msg.from.replace("@c.us", ""): drops the first "@c.us" of the address
RECURSIVE ReplaceFirst(_, _)
ReplaceFirst(s, x) ==
  IF s = <<>> THEN <<>>
  ELSE IF Head(s) = x THEN Tail(s)
  ELSE <<Head(s)>> \o ReplaceFirst(Tail(s), x)

NormalizeFrom(addr) == ReplaceFirst(addr, "@c.us")

InSeq(s, x) == \E i \in 1..Len(s) : s[i] = x
RemoveFromSeq(s, x) == SelectSeq(s, LAMBDA y : y # x)

\* sessions[id] = v : creates the key when it is missing
KeysAfterSet(ks, id) == IF InSeq(ks, id) THEN ks ELSE Append(ks, id)

\* delete sessions[id]
KeysAfterDelete(ks, id) == RemoveFromSeq(ks, id)

\* Ascending insertion of an array-index key into a sorted sequence of them
RECURSIVE InsertIndex(_, _)
InsertIndex(s, id) ==
  IF s = <<>> THEN <<id>>
  ELSE IF IndexValue(id) < IndexValue(Head(s)) THEN <<id>> \o s
  ELSE <<Head(s)>> \o InsertIndex(Tail(s), id)

RECURSIVE SortIndex(_)
SortIndex(s) == IF s = <<>> THEN <<>> ELSE InsertIndex(SortIndex(Tail(s)), Head(s))

\* Object.keys(sessions) and `for (const sessionId in sessions)`: the
\* array-index keys in ascending numeric order, then the others in insertion
\* order (OrdinaryOwnPropertyKeys).
OwnKeys(ks) ==
  SortIndex(SelectSeq(ks, IsArrayIndex)) \o SelectSeq(ks, LAMBDA k : ~IsArrayIndex(k))

\* ------------------------------------------------------------- records
NoMessageId == <<>>
NoRes == [status |-> "none", messageId |-> NoMessageId, data |-> <<>>]
Res(st, mid, d) == [status |-> st, messageId |-> mid, data |-> d]

\* A request in flight: position, awaited client, and the broadcast's locals
\* (snap: keys enumerated, pos: next key, results).  Ghost fields: skipped
\* (keys the broadcast passed over), call (the pending sendMessage call), pre
\* (the entry as the handler read it).
Idle ==
  [pc |-> "idle", cl |-> 0, snap |-> <<>>, pos |-> 1, results |-> <<>>, skipped |-> {},
   call |-> 0, pre |-> Absent]

\* What a step did (ghost): op names it, id is the session id it worked on,
\* res the response it sent (status "hang": the handler ended without one),
\* pre the entry of id before the step, call the sendMessage call it made or
\* settled, called whether it called sendMessage, pub the publishes it made,
\* errs the errors it raised that nothing caught, snap and skipped the keys a
\* finished broadcast enumerated and those of them it passed over, note "early" or "created" for the two ways of
\* setupSession, afterRemove whether that setupSession was the first since a
\* remove of the id ended.
NoStep ==
  [op |-> "none", id |-> All, res |-> NoRes, pre |-> Absent, call |-> 0, called |-> FALSE,
   pub |-> <<>>, errs |-> {}, snap |-> <<>>, skipped |-> {}, note |-> "",
   afterRemove |-> FALSE]
Step(op, id, pre) == [NoStep EXCEPT !.op = op, !.id = id, !.pre = pre]
Answer(op, id, pre, res) == [Step(op, id, pre) EXCEPT !.res = res]
Hang(op, id, pre, err) == [Step(op, id, pre) EXCEPT !.res = Res("hang", NoMessageId, <<>>), !.errs = {err}]

\* The server when it starts to listen: no session, nothing in flight
InitState ==
  /\ sessions = [id \in Ids |-> Absent]
  /\ keys = <<>>
  /\ clients = [id \in Ids |-> <<>>]
  /\ reqs = [s \in Slots |-> Idle]
  /\ rooms = [id \in Ids |-> {}]
  /\ qrs = [id \in Ids |-> [n |-> 0, pending |-> {}]]
  /\ msgs = [id \in Ids |-> [n |-> 0, pending |-> {}]]
  /\ nev = 0
  /\ ncalls = 0
  /\ store = <<>>
  /\ removed = [id \in Ids |-> FALSE]
  /\ last = NoStep

Init == InitState /\ nreq = 0

\* ----------------------------------------------------------- small helpers
CanIssue(s) == nreq < MaxReq /\ reqs[s].pc = "idle"
CanEmit == nev < MaxEvents
Clients(id) == 1..Len(clients[id])

\* A Client whose browser still runs: it can emit events.
Emitting(id, c) == clients[id][c].phase # "gone"

\* client.destroy() has been called on client c of id (0: no client, nothing
\* happens): the browser is closing, and is gone once destroy() completes.
Destroyed(cs, id, c) ==
  IF c = 0 THEN cs
  ELSE IF cs[id][c].phase = "gone" THEN cs
  ELSE [cs EXCEPT ![id][c].closing = TRUE]

Gone(cs, id, c) == [cs EXCEPT ![id][c].phase = "gone", ![id][c].closing = FALSE]

\* A variant of the publish: io.emit(ev, data), to every connected socket
Publish_Everywhere(room, ev, data) ==
  [ch |-> All, ev |-> ev, data |-> data, subs |-> UNION {rooms[id] : id \in Ids}]

\* io.to(room).emit(ev, data): one publish on the room's channel, delivered to
\* whoever is in the room at that moment (subs of them, possibly none).
Publish(room, ev, data) == [ch |-> room, ev |-> ev, data |-> data, subs |-> rooms[room]]


\* ------------------------------------------------------------ setupSession
\* A variant of the guard of line 45: the readiness flag in place of the client
AlreadySetUp_ReadyOnly(e) == IsReadyEntry(e)

\* Line 45: `if (sessions[sessionId]?.client) return;`
AlreadySetUp(e) == HasClient(e)

\* What the join handler emits to the joining socket after setupSession
\* (lines 226-228): the QR if there is one, else "ready" if the session is
\* ready, else nothing.
JoinReplay(e) ==
  IF QrOf(e) # NoQR THEN Res("qr", NoMessageId, QrOf(e))
  ELSE IF IsReadyEntry(e) THEN Res("ready", NoMessageId, <<>>)
  ELSE Res("nothing", NoMessageId, <<>>)

\* What GET /qr/:sessionId sends after setupSession (lines 118-120)
QrPageReply(e) ==
  IF QrOf(e) = NoQR THEN Res("QR not ready", NoMessageId, <<>>)
  ELSE Res("page", NoMessageId, QrOf(e))

\* The caller's continuation after `await setupSession(sessionId)`
AfterSetup(kind, e) == IF kind = "join" THEN JoinReplay(e) ELSE QrPageReply(e)

\* setupSession(sessionId) as called by the request of slot s: the early
\* return, after which the caller goes on at once; or the construction of a
\* Client, the store of the entry, the registration of the handlers and the
\* call of initialize(), which the caller awaits.
SetupSession(s) ==
  LET kind == s[1]
      id == s[2]
      e == sessions[id]
      c == Len(clients[id]) + 1
  IN /\ removed' = [removed EXCEPT ![id] = FALSE]
     /\ IF AlreadySetUp(e)
          THEN /\ last' = [Answer(kind, id, e, AfterSetup(kind, e)) EXCEPT
                             !.note = "early", !.afterRemove = removed[id]]
               /\ UNCHANGED <<sessions, keys, clients, reqs>>
          ELSE /\ c <= MaxClients
               /\ clients' = [clients EXCEPT ![id] =
                                Append(@, [phase |-> "init", init |-> "pending", closing |-> FALSE])]
               /\ sessions' = [sessions EXCEPT ![id] = NewEntry(c)]
               /\ keys' = KeysAfterSet(keys, id)
               /\ reqs' = [reqs EXCEPT ![s] = [Idle EXCEPT !.pc = "awaitInit", !.cl = c]]
               /\ last' = [Step("setup", id, e) EXCEPT
                             !.note = "created", !.afterRemove = removed[id]]

\* GET /qr/:sessionId (lines 115-121), up to the end of the synchronous part
\* of setupSession or, on its early return, to the response
GetQrPage(id) ==
  /\ CanIssue(<<"qrPage", id>>)
  /\ nreq' = nreq + 1
  /\ SetupSession(<<"qrPage", id>>)
  /\ UNCHANGED <<rooms, qrs, msgs, nev, ncalls, store>>

\* socket.on("join") (lines 223-229): socket.join(sessionId), then as above
Join(id) ==
  /\ CanIssue(<<"join", id>>)
  /\ nreq' = nreq + 1
  /\ rooms' = [rooms EXCEPT ![id] = @ \cup {Socket}]
  /\ SetupSession(<<"join", id>>)
  /\ UNCHANGED <<qrs, msgs, nev, ncalls, store>>

AwaitsInit(s, id, c) == s \in SetupSlots(id) /\ reqs[s].pc = "awaitInit" /\ reqs[s].cl = c

\* client.initialize() resolves: setupSession returns and its caller reads
\* the entry and answers
InitializeResolves(id, c) ==
  /\ c \in Clients(id)
  /\ clients[id][c].init = "pending"
  /\ clients' = [clients EXCEPT ![id][c].init = "ok"]
  /\ reqs' = [s \in Slots |-> IF AwaitsInit(s, id, c) THEN Idle ELSE reqs[s]]
  /\ LET e == sessions[id]
         waiting == {s \in Slots : AwaitsInit(s, id, c)}
     IN last' = IF waiting = {} THEN NoStep
                ELSE LET s == CHOOSE t \in waiting : TRUE
                     IN Answer(s[1], id, e, AfterSetup(s[1], e))
  /\ UNCHANGED <<sessions, keys, nreq, rooms, qrs, msgs, nev, ncalls, store, removed>>

\* client.initialize() rejects (the browser does not start): setupSession
\* throws into a route or socket handler that has no try/catch, so the
\* request gets no response and the rejection is unhandled.  The entry stored
\* at line 73 stays.
InitializeRejects(id, c) ==
  /\ c \in Clients(id)
  /\ clients[id][c].init = "pending"
  /\ clients[id][c].phase = "init"
  /\ ~clients[id][c].closing
  /\ clients' = [clients EXCEPT ![id][c].init = "failed", ![id][c].phase = "gone"]
  /\ reqs' = [s \in Slots |-> IF AwaitsInit(s, id, c) THEN Idle ELSE reqs[s]]
  /\ last' = Hang("initialize", id, sessions[id], <<"initialize", id, c>>)
  /\ UNCHANGED <<sessions, keys, nreq, rooms, qrs, msgs, nev, ncalls, store, removed>>

\* ---------------------------------------------------------- provider events
\* The provider's side of a Client, per spec section 4.2: qr while awaiting
\* scan, authenticated once, ready after authenticated, message while ready,
\* disconnected at any time; nothing after disconnected or a completed
\* destroy().  An event and the synchronous run of its handler are one action.

\* client.on("qr"), up to `await qrcode.toDataURL(qr)` (lines 75-77)
Qr(id, c) ==
  /\ c \in Clients(id)
  /\ CanEmit
  /\ clients[id][c].phase \in {"init", "scan"}
  /\ clients' = [clients EXCEPT ![id][c].phase = "scan"]
  /\ qrs' = [qrs EXCEPT ![id] = [n |-> @.n + 1, pending |-> @.pending \cup {[k |-> @.n + 1, client |-> c]}]]
  /\ nev' = nev + 1
  /\ last' = NoStep
  /\ UNCHANGED <<sessions, keys, reqs, nreq, rooms, msgs, ncalls, store, removed>>

\* The qr string of the k-th qr event of id
QrString(id, k) == <<id, k>>

\* The qr handler after the conversion (lines 78-79).  sessions[sessionId] is
\* read again here: null or missing, the assignment throws a TypeError inside
\* the async handler (an unhandled rejection) and nothing is published.
QrConverted(id, k) ==
  \E h \in qrs[id].pending :
    /\ h.k = k
    /\ qrs' = [qrs EXCEPT ![id].pending = @ \ {h}]
    /\ LET img == toDataURL(QrString(id, h.k))
           e == sessions[id]
       IN IF e.tag = "live"
            THEN /\ sessions' = [sessions EXCEPT ![id].latestQR = img]
                 /\ last' = [Step("qrStored", id, e) EXCEPT !.call = h.k,
                               !.pub = <<Publish(id, "qr", img)>>]
            ELSE /\ last' = [Step("qrThrew", id, e) EXCEPT !.call = h.k,
                               !.errs = {<<"qr", id, h.k>>}]
                 /\ UNCHANGED sessions
    /\ UNCHANGED <<keys, clients, reqs, nreq, rooms, msgs, nev, ncalls, store, removed>>

\* client.on("authenticated") (lines 82-84): logs only
Authenticated(id, c) ==
  /\ c \in Clients(id)
  /\ clients[id][c].phase \in {"init", "scan"}
  /\ clients' = [clients EXCEPT ![id][c].phase = "auth"]
  /\ last' = NoStep
  /\ UNCHANGED <<sessions, keys, reqs, nreq, rooms, nev, qrs, msgs, ncalls, store, removed>>

\* The entry after the ready handler's two assignments (lines 88-89)
ReadyEntry(e) == [e EXCEPT !.isReady = TRUE, !.latestQR = NoQR]

\* client.on("ready") (lines 86-91).  With sessions[sessionId] null or
\* missing, line 88 throws inside the emitter.
Ready(id, c) ==
  /\ c \in Clients(id)
  /\ clients[id][c].phase = "auth"
  /\ clients' = [clients EXCEPT ![id][c].phase = "ready"]
  /\ LET e == sessions[id]
     IN IF e.tag = "live"
          THEN /\ sessions' = [sessions EXCEPT ![id] = ReadyEntry(@)]
               /\ last' = [Step("ready", id, e) EXCEPT !.pub = <<Publish(id, "ready", <<>>)>>]
          ELSE /\ last' = [Step("readyThrew", id, e) EXCEPT !.errs = {<<"ready", id, c>>}]
               /\ UNCHANGED sessions
  /\ UNCHANGED <<keys, reqs, nreq, rooms, nev, qrs, msgs, ncalls, store, removed>>

\* client.on("message"), up to `await Message.create(...)` (lines 97-101)
MessageEvent(id, c, addr) ==
  /\ c \in Clients(id)
  /\ CanEmit
  /\ clients[id][c].phase = "ready"
  /\ msgs' = [msgs EXCEPT ![id] =
                [n |-> @.n + 1,
                 pending |-> @.pending \cup {[k |-> @.n + 1, client |-> c, raw |-> addr,
                                              from |-> NormalizeFrom(addr), text |-> Body]}]]
  /\ nev' = nev + 1
  /\ last' = NoStep
  /\ UNCHANGED <<sessions, keys, clients, reqs, nreq, rooms, qrs, ncalls, store, removed>>

\* The record of an inbound message (line 101); src is its provenance (ghost)
InboundRecord(id, h) ==
  [sessionId |-> id, from |-> h.from, to |-> id, text |-> h.text, src |-> <<"msg", id, h.k>>]

\* Line 102: io.to(sessionId).emit("message", { from, text, time })
InboundPublish(id, h) == <<Publish(id, "message", <<h.from, h.text>>)>>

\* Message.create resolves: the record is in the store, and the handler
\* publishes
MessageSaved(id, k) ==
  \E h \in msgs[id].pending :
    /\ h.k = k
    /\ msgs' = [msgs EXCEPT ![id].pending = @ \ {h}]
    /\ store' = Append(store, InboundRecord(id, h))
    /\ last' = [Step("messageSaved", id, sessions[id]) EXCEPT !.call = h.k,
                  !.pub = InboundPublish(id, h)]
    /\ UNCHANGED <<sessions, keys, clients, reqs, nreq, rooms, qrs, nev, ncalls, removed>>

\* Message.create rejects: the await throws inside the async handler (an
\* unhandled rejection) and line 102 is never reached
MessageSaveFails(id, k) ==
  \E h \in msgs[id].pending :
    /\ h.k = k
    /\ msgs' = [msgs EXCEPT ![id].pending = @ \ {h}]
    /\ last' = [Step("messageSaveFailed", id, sessions[id]) EXCEPT !.call = h.k,
                  !.errs = {<<"message", id, h.k>>}]
    /\ UNCHANGED <<sessions, keys, clients, reqs, nreq, rooms, qrs, nev, ncalls, store, removed>>

\* client.on("disconnected") (lines 105-109)
Disconnected(id, c) ==
  /\ c \in Clients(id)
  /\ Emitting(id, c)
  /\ clients' = Gone(clients, id, c)
  /\ sessions' = [sessions EXCEPT ![id] = Null]
  /\ keys' = KeysAfterSet(keys, id)
  /\ last' = [Step("disconnected", id, sessions[id]) EXCEPT
                !.pub = <<Publish(id, "disconnected", <<>>)>>]
  /\ UNCHANGED <<reqs, nreq, rooms, nev, qrs, msgs, ncalls, store, removed>>


\* ----------------------------------------------------------------- logout
\* GET /api/logout/:sessionId (lines 148-159), up to
\* `await session.client.logout()` or to the 400 response
Logout(id) ==
  /\ CanIssue(<<"logout", id>>)
  /\ nreq' = nreq + 1
  /\ LET e == sessions[id]
     IN IF HasClient(e)
          THEN /\ reqs' = [reqs EXCEPT ![<<"logout", id>>] =
                             [Idle EXCEPT !.pc = "awaitLogout", !.cl = e.client, !.pre = e]]
               /\ last' = NoStep
          ELSE /\ last' = Answer("logout", id, e, Res("Session not found", NoMessageId, <<>>))
               /\ UNCHANGED reqs
  /\ UNCHANGED <<sessions, keys, clients, rooms, qrs, msgs, nev, ncalls, store, removed>>

\* logout() resolves: `await session.client.destroy()` is called (line 153)
LogoutResolves(id) ==
  /\ reqs[<<"logout", id>>].pc = "awaitLogout"
  /\ reqs' = [reqs EXCEPT ![<<"logout", id>>].pc = "awaitDestroy"]
  /\ clients' = Destroyed(clients, id, reqs[<<"logout", id>>].cl)
  /\ last' = NoStep
  /\ UNCHANGED <<sessions, keys, nreq, rooms, qrs, msgs, nev, ncalls, store, removed>>

\* logout() rejects: the route has no try/catch, so the handler ends there,
\* without a response and with the entry untouched
LogoutRejects(id) ==
  /\ reqs[<<"logout", id>>].pc = "awaitLogout"
  /\ reqs' = [reqs EXCEPT ![<<"logout", id>>] = Idle]
  /\ removed' = [removed EXCEPT ![id] = TRUE]
  /\ last' = Hang("logout", id, sessions[id], <<"logout", id>>)
  /\ UNCHANGED <<sessions, keys, clients, nreq, rooms, qrs, msgs, nev, ncalls, store>>

\* destroy() resolves: `sessions[sessionId] = null` and the success response
\* (lines 154-155)
DestroyResolves(id) ==
  /\ reqs[<<"logout", id>>].pc = "awaitDestroy"
  /\ clients' = Gone(clients, id, reqs[<<"logout", id>>].cl)
  /\ sessions' = [sessions EXCEPT ![id] = Null]
  /\ keys' = KeysAfterSet(keys, id)
  /\ reqs' = [reqs EXCEPT ![<<"logout", id>>] = Idle]
  /\ removed' = [removed EXCEPT ![id] = TRUE]
  /\ last' = Answer("logout", id, sessions[id], Res("success", NoMessageId, <<>>))
  /\ UNCHANGED <<nreq, rooms, qrs, msgs, nev, ncalls, store>>

\* destroy() rejects: as for logout(), the handler ends there
DestroyRejects(id) ==
  /\ reqs[<<"logout", id>>].pc = "awaitDestroy"
  /\ clients' = Gone(clients, id, reqs[<<"logout", id>>].cl)
  /\ reqs' = [reqs EXCEPT ![<<"logout", id>>] = Idle]
  /\ removed' = [removed EXCEPT ![id] = TRUE]
  /\ last' = Hang("logout", id, sessions[id], <<"destroy", id>>)
  /\ UNCHANGED <<sessions, keys, nreq, rooms, qrs, msgs, nev, ncalls, store>>

\* ----------------------------------------------------------------- delete
\* DELETE /api/session/:sessionId (lines 162-172), up to
\* `await ...deleteMany(...)`
Delete(id) ==
  /\ CanIssue(<<"delete", id>>)
  /\ nreq' = nreq + 1
  /\ reqs' = [reqs EXCEPT ![<<"delete", id>>] = [Idle EXCEPT !.pc = "awaitDb"]]
  /\ last' = NoStep
  /\ UNCHANGED <<sessions, keys, clients, rooms, qrs, msgs, nev, ncalls, store, removed>>

\* deleteMany resolves: destroy() is called and not awaited, the key is
\* deleted, success is sent (lines 166-168)
DeleteManyResolves(id) ==
  /\ reqs[<<"delete", id>>].pc = "awaitDb"
  /\ clients' = Destroyed(clients, id, sessions[id].client)
  /\ sessions' = [sessions EXCEPT ![id] = Absent]
  /\ keys' = KeysAfterDelete(keys, id)
  /\ reqs' = [reqs EXCEPT ![<<"delete", id>>] = Idle]
  /\ removed' = [removed EXCEPT ![id] = TRUE]
  /\ last' = Answer("delete", id, sessions[id], Res("success", NoMessageId, <<>>))
  /\ UNCHANGED <<nreq, rooms, qrs, msgs, nev, ncalls, store>>

\* deleteMany rejects: caught, status 500 (lines 169-171)
DeleteManyRejects(id) ==
  /\ reqs[<<"delete", id>>].pc = "awaitDb"
  /\ reqs' = [reqs EXCEPT ![<<"delete", id>>] = Idle]
  /\ last' = Answer("delete", id, sessions[id], Res("error", NoMessageId, <<"db">>))
  /\ UNCHANGED <<sessions, keys, clients, nreq, rooms, qrs, msgs, nev, ncalls, store, removed>>

\* A destroy() nobody awaits completes: the browser is gone.  Had it failed,
\* the rejection would be unhandled; the client is gone either way.
DestroyCompletes(id, c) ==
  /\ c \in Clients(id)
  /\ clients[id][c].closing
  /\ ~(reqs[<<"logout", id>>].pc = "awaitDestroy" /\ reqs[<<"logout", id>>].cl = c)
  /\ clients' = Gone(clients, id, c)
  /\ last' = NoStep
  /\ UNCHANGED <<sessions, keys, reqs, nreq, rooms, qrs, msgs, nev, ncalls, store, removed>>

\* ------------------------------------------------------------ read routes
\* GET /api/status/:sessionId (lines 132-135): what it answers in the current
\* state.  The route is synchronous and changes nothing.
StatusReply(id) == [ready |-> IsReadyEntry(sessions[id])]

\* GET /api/sessions (lines 138-145): what it answers in the current state
ListReply ==
  [i \in DOMAIN OwnKeys(keys) |->
     [sessionId |-> OwnKeys(keys)[i],
      isReady |-> IsReadyEntry(sessions[OwnKeys(keys)[i]]),
      hasQR |-> QrOf(sessions[OwnKeys(keys)[i]]) # NoQR]]

\* ------------------------------------------------------------------- send
\* A variant of the guard of line 178: without its readiness half
NotReady_ClientOnly(e) == ~HasClient(e)

\* Line 178: `if (!session || !session.isReady)`
NotReady(e) == ~IsReadyEntry(e)

\* sent.id._serialized of the n-th call: the id the provider issued for it
MessageId(n) == <<"msgid", n>>

\* POST /api/send (lines 175-189), up to
\* `await session.client.sendMessage(chatId, message)` or to the 400 response
Send(id) ==
  /\ CanIssue(<<"send", id>>)
  /\ nreq' = nreq + 1
  /\ LET e == sessions[id]
     IN IF NotReady(e)
          THEN /\ last' = Answer("send", id, e, Res("Session not ready", NoMessageId, <<>>))
               /\ UNCHANGED <<reqs, ncalls>>
          ELSE /\ reqs' = [reqs EXCEPT ![<<"send", id>>] =
                             [Idle EXCEPT !.pc = "awaitSend", !.cl = e.client,
                                          !.call = ncalls + 1, !.pre = e]]
               /\ ncalls' = ncalls + 1
               /\ last' = [Step("sendCall", id, e) EXCEPT !.call = ncalls + 1, !.called = TRUE]
  /\ UNCHANGED <<sessions, keys, clients, rooms, qrs, msgs, nev, store, removed>>

\* sendMessage resolves: `await Message.create(...)` is called (line 184)
SendMessageResolves(id) ==
  /\ reqs[<<"send", id>>].pc = "awaitSend"
  /\ reqs' = [reqs EXCEPT ![<<"send", id>>].pc = "awaitStore"]
  /\ last' = NoStep
  /\ UNCHANGED <<sessions, keys, clients, nreq, rooms, qrs, msgs, nev, ncalls, store, removed>>

\* sendMessage rejects: caught, status 500 (lines 186-188)
SendMessageRejects(id) ==
  /\ reqs[<<"send", id>>].pc = "awaitSend"
  /\ reqs' = [reqs EXCEPT ![<<"send", id>>] = Idle]
  /\ last' = [Answer("send", id, sessions[id], Res("error", NoMessageId, <<"provider">>))
                EXCEPT !.call = reqs[<<"send", id>>].call]
  /\ UNCHANGED <<sessions, keys, clients, nreq, rooms, qrs, msgs, nev, ncalls, store, removed>>

\* A variant of the outbound record: the session id as its sender
OutboundRecord_FromSession(id, n) ==
  [sessionId |-> id, from |-> id, to |-> Number, text |-> Body, src |-> <<"call", n>>]

\* The record of the outbound message of the n-th call (line 184); src is its
\* provenance (ghost)
OutboundRecord(id, n) ==
  [sessionId |-> id, from |-> "admin", to |-> Number, text |-> Body, src |-> <<"call", n>>]

\* Message.create resolves: the record is stored and success is sent with
\* the provider's message id (line 185)
SendSaved(id) ==
  /\ reqs[<<"send", id>>].pc = "awaitStore"
  /\ store' = Append(store, OutboundRecord(id, reqs[<<"send", id>>].call))
  /\ reqs' = [reqs EXCEPT ![<<"send", id>>] = Idle]
  /\ last' = [Answer("send", id, sessions[id],
                     Res("success", MessageId(reqs[<<"send", id>>].call), <<>>))
                EXCEPT !.call = reqs[<<"send", id>>].call]
  /\ UNCHANGED <<sessions, keys, clients, nreq, rooms, qrs, msgs, nev, ncalls, removed>>

\* Message.create rejects: caught by the same try, status 500
SendSaveFails(id) ==
  /\ reqs[<<"send", id>>].pc = "awaitStore"
  /\ reqs' = [reqs EXCEPT ![<<"send", id>>] = Idle]
  /\ last' = [Answer("send", id, sessions[id], Res("error", NoMessageId, <<"store">>))
                EXCEPT !.call = reqs[<<"send", id>>].call]
  /\ UNCHANGED <<sessions, keys, clients, nreq, rooms, qrs, msgs, nev, ncalls, store, removed>>

\* -------------------------------------------------------------- broadcast
\* One element of `results`.  Ghost fields: call (the sendMessage call made
\* for it, 0 if none) and was (the entry as the loop read it).
Result(id, ok, mid, err, n, e) ==
  [sessionId |-> id, success |-> ok, messageId |-> mid, error |-> err, call |-> n, was |-> e]

\* Line 198: `if (session?.isReady)`
BroadcastReady(e) == IsReadyEntry(e)

\* The for-in loop of POST /api/broadcast from the request's position to its
\* next await or its end (pc "idle"): keys deleted since the loop began are
\* passed over, a session that is not ready gets its result at once, a ready
\* one has sendMessage called and awaited.
RECURSIVE BroadcastLoop(_)
BroadcastLoop(r) ==
  IF r.pos > Len(r.snap) THEN [r EXCEPT !.pc = "idle"]
  ELSE LET id == r.snap[r.pos]
           e == sessions[id]
       IN IF ~InSeq(keys, id)
            THEN BroadcastLoop([r EXCEPT !.pos = @ + 1, !.skipped = @ \cup {id}])
          ELSE IF BroadcastReady(e)
            THEN [r EXCEPT !.pc = "awaitSend", !.cl = e.client, !.call = ncalls + 1, !.pre = e]
          ELSE BroadcastLoop([r EXCEPT !.pos = @ + 1,
                 !.results = Append(@, Result(id, FALSE, NoMessageId, "Session not ready", 0, e))])

\* A run of the loop from r: either sendMessage is called for the next ready
\* session, or the loop ends and `results` is sent (line 210)
BroadcastStep(r) ==
  LET r2 == BroadcastLoop(r)
  IN IF r2.pc = "awaitSend"
       THEN /\ reqs' = [reqs EXCEPT ![<<"broadcast", All>>] = r2]
            /\ ncalls' = ncalls + 1
            /\ last' = [Step("broadcastCall", r2.snap[r2.pos], r2.pre) EXCEPT
                          !.call = r2.call, !.called = TRUE]
       ELSE /\ reqs' = [reqs EXCEPT ![<<"broadcast", All>>] = Idle]
            /\ last' = [Answer("broadcast", All, Absent, Res("results", NoMessageId, r2.results))
                          EXCEPT !.snap = r2.snap, !.skipped = r2.skipped]
            /\ UNCHANGED ncalls

\* POST /api/broadcast (lines 192-211), up to its first
\* `await session.client.sendMessage` or to the response
Broadcast ==
  /\ CanIssue(<<"broadcast", All>>)
  /\ nreq' = nreq + 1
  /\ BroadcastStep([Idle EXCEPT !.snap = OwnKeys(keys)])
  /\ UNCHANGED <<sessions, keys, clients, rooms, qrs, msgs, nev, store, removed>>

\* sendMessage resolves: the success result is pushed and the loop goes on
BroadcastSendResolves ==
  /\ reqs[<<"broadcast", All>>].pc = "awaitSend"
  /\ LET r == reqs[<<"broadcast", All>>]
         res == Result(r.snap[r.pos], TRUE, MessageId(r.call), "", r.call, r.pre)
     IN BroadcastStep([r EXCEPT !.pos = @ + 1, !.results = Append(@, res)])
  /\ UNCHANGED <<sessions, keys, clients, nreq, rooms, qrs, msgs, nev, store, removed>>

\* sendMessage rejects: caught inside the loop body, the failure result is
\* pushed and the loop goes on
BroadcastSendRejects ==
  /\ reqs[<<"broadcast", All>>].pc = "awaitSend"
  /\ LET r == reqs[<<"broadcast", All>>]
         res == Result(r.snap[r.pos], FALSE, NoMessageId, "provider", r.call, r.pre)
     IN BroadcastStep([r EXCEPT !.pos = @ + 1, !.results = Append(@, res)])
  /\ UNCHANGED <<sessions, keys, clients, nreq, rooms, qrs, msgs, nev, store, removed>>

\* ------------------------------------------------------------ specification
\* The steps of the program that concern the session ids of I
NextOn(I) ==
  \/ \E id \in I : GetQrPage(id)
  \/ \E id \in I : Join(id)
  \/ \E id \in I, c \in 1..MaxClients : InitializeResolves(id, c)
  \/ \E id \in I, c \in 1..MaxClients : InitializeRejects(id, c)
  \/ \E id \in I, c \in 1..MaxClients : Qr(id, c)
  \/ \E id \in I, k \in 1..MaxEvents : QrConverted(id, k)
  \/ \E id \in I, c \in 1..MaxClients : Authenticated(id, c)
  \/ \E id \in I, c \in 1..MaxClients : Ready(id, c)
  \/ \E id \in I, c \in 1..MaxClients, addr \in Addresses : MessageEvent(id, c, addr)
  \/ \E id \in I, k \in 1..MaxEvents : MessageSaved(id, k)
  \/ \E id \in I, k \in 1..MaxEvents : MessageSaveFails(id, k)
  \/ \E id \in I, c \in 1..MaxClients : Disconnected(id, c)
  \/ \E id \in I : Logout(id)
  \/ \E id \in I : LogoutResolves(id)
  \/ \E id \in I : LogoutRejects(id)
  \/ \E id \in I : DestroyResolves(id)
  \/ \E id \in I : DestroyRejects(id)
  \/ \E id \in I : Delete(id)
  \/ \E id \in I : DeleteManyResolves(id)
  \/ \E id \in I : DeleteManyRejects(id)
  \/ \E id \in I, c \in 1..MaxClients : DestroyCompletes(id, c)
  \/ \E id \in I : Send(id)
  \/ \E id \in I : SendMessageResolves(id)
  \/ \E id \in I : SendMessageRejects(id)
  \/ \E id \in I : SendSaved(id)
  \/ \E id \in I : SendSaveFails(id)
  \/ Broadcast
  \/ BroadcastSendResolves
  \/ BroadcastSendRejects

\* The program: every request and every provider event, for every id
Next == NextOn(Ids)

Spec == Init /\ [][Next]_vars

\* The program serving one session id: every request and every provider
\* event, in every interleaving
OneId == {"a"}
NextOne == NextOn(OneId)
SpecOne == Init /\ [][NextOne]_vars

\* The program serving both ids, with the steps that decide what a broadcast
\* reads: sessions are created, become ready, are disconnected, logged out
\* or deleted, and broadcasts run among them.  The count of requests starts
\* one below zero, so that one behaviour has room for the creation of two
\* sessions, a broadcast and one more request while the broadcast is
\* suspended.
InitBroadcast == InitState /\ nreq = -1

NextBroadcast ==
  \/ \E id \in Ids : GetQrPage(id)
  \/ \E id \in Ids, c \in 1..MaxClients : InitializeResolves(id, c)
  \/ \E id \in Ids, c \in 1..MaxClients : Authenticated(id, c)
  \/ \E id \in Ids, c \in 1..MaxClients : Ready(id, c)
  \/ \E id \in Ids, c \in 1..MaxClients : Disconnected(id, c)
  \/ \E id \in Ids : Logout(id)
  \/ \E id \in Ids : LogoutResolves(id)
  \/ \E id \in Ids : LogoutRejects(id)
  \/ \E id \in Ids : DestroyResolves(id)
  \/ \E id \in Ids : DestroyRejects(id)
  \/ \E id \in Ids : Delete(id)
  \/ \E id \in Ids : DeleteManyResolves(id)
  \/ \E id \in Ids, c \in 1..MaxClients : DestroyCompletes(id, c)
  \/ Broadcast
  \/ BroadcastSendResolves
  \/ BroadcastSendRejects

SpecBroadcast == InitBroadcast /\ [][NextBroadcast]_vars

\* The program serving both ids, with every request and provider event that
\* works on one session for the id "a", next to a session for the id "7" that
\* is created and driven by its own Client's events
NextIsolation ==
  \/ \E id \in Ids : GetQrPage(id)
  \/ \E id \in Ids, c \in 1..MaxClients : InitializeResolves(id, c)
  \/ \E id \in Ids, c \in 1..MaxClients : Qr(id, c)
  \/ \E id \in Ids, k \in 1..MaxEvents : QrConverted(id, k)
  \/ \E id \in Ids, c \in 1..MaxClients : Authenticated(id, c)
  \/ \E id \in Ids, c \in 1..MaxClients : Ready(id, c)
  \/ \E id \in Ids, c \in 1..MaxClients : Disconnected(id, c)
  \/ \E id \in OneId, c \in 1..MaxClients, addr \in Addresses : MessageEvent(id, c, addr)
  \/ \E id \in OneId, k \in 1..MaxEvents : MessageSaved(id, k)
  \/ \E id \in OneId, k \in 1..MaxEvents : MessageSaveFails(id, k)
  \/ \E id \in OneId : Logout(id)
  \/ \E id \in OneId : LogoutResolves(id)
  \/ \E id \in OneId : LogoutRejects(id)
  \/ \E id \in OneId : DestroyResolves(id)
  \/ \E id \in OneId : DestroyRejects(id)
  \/ \E id \in OneId : Delete(id)
  \/ \E id \in OneId : DeleteManyResolves(id)
  \/ \E id \in OneId : DeleteManyRejects(id)
  \/ \E id \in OneId, c \in 1..MaxClients : DestroyCompletes(id, c)
  \/ \E id \in OneId : Send(id)
  \/ \E id \in OneId : SendMessageResolves(id)
  \/ \E id \in OneId : SendMessageRejects(id)
  \/ \E id \in OneId : SendSaved(id)
  \/ \E id \in OneId : SendSaveFails(id)

SpecIsolation == Init /\ [][NextIsolation]_vars



\* ================================================================ claims
SetupKinds == {"qrPage", "join"}
RecordsOf(src) == {i \in DOMAIN store : store[i].src = src}

\* ---------------------------------------------------------------------- C1
\* C1: overlapping setupSession(id) calls are single-flight.  A step
\* constructs (and initializes) at most one Client for an id, and only when
\* the id has no live session; the entry it stores is the new session of that
\* Client; a live entry always refers to the last Client constructed for its
\* id, so that no Client is ever constructed beside a live session; the id is
\* one key of the registry; and whoever awaits an initialization for the id
\* awaits the one of a Client that was constructed for it.
C1_SingleFlight ==
  [][\A id \in Ids :
       /\ Len(clients'[id]) <= Len(clients[id]) + 1
       /\ Len(clients'[id]) >= Len(clients[id])
       /\ Len(clients'[id]) = Len(clients[id]) + 1 =>
            /\ ~HasClient(sessions[id])
            /\ sessions'[id] = NewEntry(Len(clients'[id]))
            /\ clients'[id][Len(clients'[id])].init = "pending"
       /\ HasClient(sessions'[id]) =>
            /\ sessions'[id].client = Len(clients'[id])
            /\ Cardinality({i \in DOMAIN keys' : keys'[i] = id}) = 1
       /\ \A k \in SetupKinds :
            reqs'[<<k, id>>].pc = "awaitInit" => reqs'[<<k, id>>].cl \in 1..Len(clients'[id])
    ]_vars

\* C1 witness: a setupSession(id) call returned early while another one was
\* still awaiting the initialization of the only Client of the id
C1_Witness ==
  \E id \in Ids : \E k \in SetupKinds :
    /\ reqs[<<k, id>>].pc = "awaitInit"
    /\ last.op \in SetupKinds /\ last.op # k /\ last.id = id /\ last.note = "early"
    /\ Len(clients[id]) = 1
    /\ clients[id][1].init = "pending"

\* ---------------------------------------------------------------------- C2
\* C2 (as claimed): a Ready session holds no QR payload, and a QR payload is
\* held only by a live session that is not Ready
C2_ReadyHoldsNoQR ==
  \A id \in Ids :
    /\ IsReadyEntry(sessions[id]) => QrOf(sessions[id]) = NoQR
    /\ QrOf(sessions[id]) # NoQR => HasClient(sessions[id]) /\ ~IsReadyEntry(sessions[id])

\* ---------------------------------------------------------------------- C3
\* A step is the start of POST /api/send for id
SendIssued(id) ==
  /\ reqs[<<"send", id>>].pc = "idle"
  /\ nreq' = nreq + 1
  /\ last'.id = id
  /\ last'.op \in {"send", "sendCall"}

\* C3: a send for an id whose entry is missing, null or not ready is answered
\* "Session not ready" in the same step and makes no sendMessage call; and a
\* step makes at most one sendMessage call, only as a send or a broadcast,
\* and only for an id whose entry is ready when the call is made.
C3_NotReadyNoCall ==
  [][/\ \A id \in Ids :
          SendIssued(id) /\ ~IsReadyEntry(sessions[id]) =>
            /\ last'.res.status = "Session not ready"
            /\ ~last'.called
            /\ ncalls' = ncalls
            /\ reqs'[<<"send", id>>].pc = "idle"
     /\ ncalls' \in {ncalls, ncalls + 1}
     /\ ncalls' = ncalls + 1 <=> last'.called
     /\ last'.called =>
          /\ last'.op \in {"sendCall", "broadcastCall"}
          /\ last'.id \in Ids
          /\ IsReadyEntry(sessions[last'.id])
    ]_vars

\* C3 witness: a send was refused for a session that is live (it has a
\* Client) and not ready
C3_Witness ==
  /\ last.op = "send"
  /\ last.res.status = "Session not ready"
  /\ HasClient(last.pre)
  /\ ~IsReadyEntry(last.pre)

\* ---------------------------------------------------------------------- C4
\* C4: when a send answers success, the store holds exactly one record of its
\* sendMessage call, with sessionId the session id, from "admin", to the
\* number and text the message of the request, and that record was appended
\* by the answering step; when the provider call of a send fails, the store
\* holds no record of it and the answering step appends nothing.
C4_SendPersistsOnce ==
  [][last'.op = "send" /\ last' # last =>
       LET recs == {i \in DOMAIN store' : store'[i].src = <<"call", last'.call>>}
       IN /\ last'.res.status = "success" =>
               /\ Cardinality(recs) = 1
               /\ recs = {Len(store')}
               /\ Len(store') = Len(store) + 1
               /\ store'[Len(store')].sessionId = last'.id
               /\ store'[Len(store')].from = "admin"
               /\ store'[Len(store')].to = Number
               /\ store'[Len(store')].text = Body
               /\ last'.res.messageId = MessageId(last'.call)
          /\ last'.res.status = "error" /\ last'.res.data = <<"provider">> =>
               /\ recs = {}
               /\ store' = store
    ]_vars

\* C4 witness: a send has answered success and its record is in the store
C4_Witness ==
  /\ last.op = "send"
  /\ last.res.status = "success"
  /\ RecordsOf(<<"call", last.call>>) # {}

\* C4 witness of the failure half: a send has answered the provider's error
C4_WitnessFailure ==
  /\ last.op = "send"
  /\ last.res.status = "error"
  /\ last.res.data = <<"provider">>


\* ---------------------------------------------------------------------- C5
\* C5 (as claimed): every message event of a session whose handler has run to
\* its end has exactly one record in the store, with sessionId and to the
\* session id, and the step that ended the handler made exactly one publish,
\* of a "message" event on the session's channel, whoever was in the room
C5_InboundOnceEach ==
  /\ \A id \in Ids : \A k \in 1..msgs[id].n :
       (\A h \in msgs[id].pending : h.k # k) =>
          /\ Cardinality(RecordsOf(<<"msg", id, k>>)) = 1
          /\ \A i \in RecordsOf(<<"msg", id, k>>) : store[i].sessionId = id /\ store[i].to = id
  /\ last.op \in {"messageSaved", "messageSaveFailed"} =>
       /\ Len(last.pub) = 1
       /\ last.pub[1].ev = "message"
       /\ last.pub[1].ch = last.id

\* ---------------------------------------------------------------------- C6
\* C6 (as claimed): what a join replays is the state of the session as the
\* handler read it: "ready" for a session that is Ready, the QR payload for
\* one that is live, not Ready and holds one, and never a QR payload for a
\* session that is Ready
C6_JoinReplaysState ==
  last.op = "join" =>
    /\ IsReadyEntry(last.pre) => last.res.status = "ready"
    /\ HasClient(last.pre) /\ ~IsReadyEntry(last.pre) /\ QrOf(last.pre) # NoQR =>
         last.res.status = "qr" /\ last.res.data = QrOf(last.pre)
    /\ last.res.status = "qr" => ~IsReadyEntry(last.pre)

\* ---------------------------------------------------------------------- C7
ResultIds(rs) == [i \in DOMAIN rs |-> rs[i].sessionId]
BroadcastSlot == <<"broadcast", All>>

\* C7 (the part of the claim that holds, with the order the code has): a
\* broadcast answers one result per key it enumerated, less
\* the keys deleted before their turn, in the order of the enumeration, which
\* puts the ids that are array indices before the others; the keys enumerated
\* are the keys the registry has when the request arrives; the result of a
\* session is decided by that session alone: "Session not ready" without a
\* sendMessage call when the entry read is missing its ready flag, and after
\* a sendMessage call of its own either success with the message id of that
\* call or the provider's error.
C7_OneResultPerKey ==
  [][/\ reqs[BroadcastSlot].pc = "idle" /\ reqs'[BroadcastSlot].pc # "idle" =>
          /\ Len(reqs'[BroadcastSlot].snap) = Len(keys)
          /\ \A id \in Ids : InSeq(reqs'[BroadcastSlot].snap, id) <=> InSeq(keys, id)
     /\ last'.op = "broadcast" =>
          LET rs == last'.res.data
              snap == last'.snap
          IN /\ reqs[BroadcastSlot].pc = "idle" =>
                  /\ Len(snap) = Len(keys)
                  /\ \A id \in Ids : InSeq(snap, id) <=> InSeq(keys, id)
                  /\ last'.skipped = {}
             /\ reqs'[BroadcastSlot].pc = "idle"
             /\ \A i, j \in DOMAIN snap :
                  /\ i # j => snap[i] # snap[j]
                  /\ i < j => ~(IsArrayIndex(snap[j]) /\ ~IsArrayIndex(snap[i]))
             /\ \A id \in last'.skipped : InSeq(snap, id)
             /\ ResultIds(rs) = SelectSeq(snap, LAMBDA id : id \notin last'.skipped)
             /\ \A i \in DOMAIN rs :
                  /\ ~IsReadyEntry(rs[i].was) =>
                        /\ ~rs[i].success
                        /\ rs[i].error = "Session not ready"
                        /\ rs[i].call = 0
                  /\ IsReadyEntry(rs[i].was) =>
                        /\ rs[i].call \in 1..ncalls'
                        /\ \/ rs[i].success /\ rs[i].messageId = MessageId(rs[i].call)
                           \/ ~rs[i].success /\ rs[i].error = "provider"
                        /\ \A j \in DOMAIN rs : j # i => rs[j].call # rs[i].call
    ]_vars

\* C7 witness: a broadcast over two tracked sessions has answered with a
\* success for one and "Session not ready" for the other
C7_Witness ==
  /\ last.op = "broadcast"
  /\ Len(last.res.data) = 2
  /\ \E i, j \in DOMAIN last.res.data :
       /\ last.res.data[i].success
       /\ last.res.data[j].error = "Session not ready"

\* C7 (as claimed): a broadcast that is answered at once answers one result
\* per key of the registry, in the order the keys were inserted
C7_InsertionOrder ==
  [][last'.op = "broadcast" /\ reqs[BroadcastSlot].pc = "idle" =>
       ResultIds(last'.res.data) = keys]_vars

\* ---------------------------------------------------------------------- C8
\* C8 (as claimed): the first setupSession(id) after a remove of id has ended
\* leaves a new entry for id: a new Client, no QR payload, not ready
C8_FreshAfterRemove ==
  last.afterRemove =>
    /\ last.note = "created"
    /\ sessions[last.id] = NewEntry(Len(clients[last.id]))

\* ---------------------------------------------------------------------- C9
\* C9 (as claimed): when a logout or delete request has ended, other than by
\* the store's error of a delete, the id has no live session and nothing was
\* raised that no one caught; and a logout or delete of an id without a live
\* session leaves the registry's entries as they were
C9_RemoveBestEffort ==
  last.op \in {"logout", "delete"} /\ last.res.status # "error" =>
    /\ ~HasClient(sessions[last.id])
    /\ QrOf(sessions[last.id]) = NoQR
    /\ ~IsReadyEntry(sessions[last.id])
    /\ last.errs = {}

\* --------------------------------------------------------------------- C10
\* C10 (as claimed): when Message.create fails in the message handler, the
\* "message" event is still published on the session's channel
C10_PublishDespiteStoreFailure ==
  last.op = "messageSaveFailed" =>
    \E i \in DOMAIN last.pub : last.pub[i].ev = "message" /\ last.pub[i].ch = last.id


\* --------------------------------------------------------------------- C11
\* The logout handler of id is between the call of logout() and the clearing
\* of the entry
TearingDown(id) == reqs[<<"logout", id>>].pc \in {"awaitLogout", "awaitDestroy"}

\* C11 (as claimed): while a logout of id is tearing its session down, the
\* status and list routes do not report id ready, and no step calls
\* sendMessage for id (neither a send nor a broadcast)
C11_TeardownNotReady ==
  [][\A id \in Ids :
       TearingDown(id) =>
         /\ ~StatusReply(id).ready
         /\ \A i \in DOMAIN ListReply : ListReply[i].sessionId = id => ~ListReply[i].isReady
         /\ ~(last'.called /\ last'.id = id)
    ]_vars

\* --------------------------------------------------------------------- C12
\* C12 (as claimed): for every result of a broadcast that reports success,
\* the store holds exactly one record of that sendMessage call, of that
\* session and from "admin"
C12_BroadcastPersists ==
  last.op = "broadcast" =>
    \A i \in DOMAIN last.res.data :
      last.res.data[i].success =>
        /\ Cardinality(RecordsOf(<<"call", last.res.data[i].call>>)) = 1
        /\ \A j \in RecordsOf(<<"call", last.res.data[i].call>>) :
             store[j].sessionId = last.res.data[i].sessionId /\ store[j].from = "admin"

\* --------------------------------------------------------------------- C13
\* C13 (as claimed): when the rest of a qr handler, a ready handler or the
\* rest of a message handler whose store write succeeded runs on an entry
\* that was terminated (null), the entry stays terminated and the handler
\* raises nothing
C13_TerminatedAbsorbing ==
  last.op \in {"qrStored", "qrThrew", "ready", "readyThrew", "messageSaved"}
    /\ last.pre.tag = "null" =>
      /\ sessions[last.id].tag = "null"
      /\ last.errs = {}

\* --------------------------------------------------------------------- C14
\* C14 (as claimed): a ready event of a Client, or the end of the image
\* conversion of one of its qr events, leaves the entry of the id as it is
\* when the entry is the session of another Client
C14_OnlyCurrentClient ==
  [][\A id \in Ids :
       /\ \A c \in 1..Len(clients[id]) :
            /\ clients[id][c].phase = "auth"
            /\ clients'[id][c].phase = "ready"
            /\ HasClient(sessions[id])
            /\ sessions[id].client # c
            => sessions'[id] = sessions[id]
       /\ \A h \in qrs[id].pending \ qrs'[id].pending :
            HasClient(sessions[id]) /\ sessions[id].client # h.client
            => sessions'[id] = sessions[id]
    ]_vars

\* --------------------------------------------------------------------- C15
\* C15 (as claimed): a setupSession call that returns to its caller while the
\* entry of the id is live does so only after the initialization of the
\* entry's Client has completed
C15_AwaitsSharedInit ==
  last.op \in SetupKinds /\ last.note = "early" =>
    clients[last.id][last.pre.client].init # "pending"

\* --------------------------------------------------------------------- C16
\* C16 (as claimed): once every image conversion of the qr events of an id
\* has completed, a session that is awaiting scan and holds a QR payload
\* holds the image of the qr event emitted last
C16_LatestQrWins ==
  \A id \in Ids :
    /\ qrs[id].n > 0
    /\ qrs[id].pending = {}
    /\ HasClient(sessions[id])
    /\ ~IsReadyEntry(sessions[id])
    /\ QrOf(sessions[id]) # NoQR
    => QrOf(sessions[id]) = toDataURL(QrString(id, qrs[id].n))

\* --------------------------------------------------------------------- C17
\* C17 (as claimed): the results of a broadcast are one per id that the
\* registry tracked when the broadcast was invoked (the keys it enumerated
\* then), and none for another id
C17_SnapshotResults ==
  last.op = "broadcast" =>
    /\ Len(last.res.data) = Len(last.snap)
    /\ \A id \in Ids :
         InSeq(last.snap, id) <=> InSeq(ResultIds(last.res.data), id)

\* --------------------------------------------------------------------- C18
\* C18 (as claimed): a send whose sendMessage call succeeded (the handler is
\* at its store write) ends with success and the message id of that call
C18_DeliveredIsSuccess ==
  [][\A id \in Ids :
       reqs[<<"send", id>>].pc = "awaitStore" /\ reqs'[<<"send", id>>].pc = "idle" =>
         /\ last'.res.status = "success"
         /\ last'.res.messageId = MessageId(reqs[<<"send", id>>].call)
    ]_vars

\* --------------------------------------------------------------------- C19
\* C19 (as claimed): a setupSession call never returns early on an entry
\* whose Client failed to initialize
C19_RetryAfterInitFailure ==
  last.op \in SetupKinds /\ last.note = "early" =>
    clients[last.id][last.pre.client].init # "failed"


\* --------------------------------------------------------------------- C20
\* C20: sessions are isolated.  A step changes the registry entry (client, QR
\* payload, ready flag) or the presence of the key of at most one session id,
\* and that id is the one whose request or provider event the step handled;
\* everything the step publishes goes to the channel of that same id.
C20_Isolated ==
  [][/\ \A b \in Ids :
          sessions'[b] # sessions[b] \/ InSeq(keys', b) # InSeq(keys, b) =>
            /\ last'.op # "none"
            /\ last'.id = b
            /\ \A a \in Ids \ {b} :
                 sessions'[a] = sessions[a] /\ (InSeq(keys', a) <=> InSeq(keys, a))
     /\ \A i \in DOMAIN last'.pub :
          /\ last'.id \in Ids
          /\ last'.pub[i].ch = last'.id
    ]_vars

\* C20 witness: the session of one id was disconnected, with its publish on
\* its own channel, while the session of the other id was ready
C20_Witness ==
  \E a \in Ids : \E b \in Ids \ {a} :
    /\ last.op = "disconnected"
    /\ last.id = a
    /\ last.pub # <<>>
    /\ sessions[a].tag = "null"
    /\ IsReadyEntry(sessions[b])

=============================================================================
